---- MODULE Spec2Model ----
(***************************************************************************)
(* Model of src/manajemen_data_mahasiswa.py: the Student dataclass, the    *)
(* StudentManager store (in-memory list + JSON file) and its operations.   *)
(*                                                                         *)
(* A gpa is a Python float; it is modelled in tenths of a point (30 is     *)
(* 3.0), finite values only.  get_average_gpa returns the exact quotient   *)
(* as a pair <<numerator, denominator>>.                                   *)
(*                                                                         *)
(* The caller is the menu loop of the module: it makes one call, shows the *)
(* result and asks for the next option.  It catches ValueError only, so an *)
(* exception raised inside update_student ends the run; the program can    *)
(* then only be started again on the file that was left behind.            *)
(***************************************************************************)
EXTENDS Integers, Sequences, FiniteSets

VARIABLES
    students,   \* StudentManager.students: the in-memory list of Student
    file,       \* the content of the data file (DATA_FILE_PATH)
    op,         \* the operation that just returned, "prompt" between two calls
    args,       \* its arguments
    ret,        \* what it returned (or that it raised)
    wrote,      \* TRUE iff the last operation opened the data file for writing
    alias,      \* which object of the store the returned value is a reference to
    lastAdded   \* the id the latest add_student returned, where the caller notes it

vars == <<students, file, op, args, ret, wrote, alias, lastAdded>>

---------------------------------------------------------------------------
(* Bounds of the model *)

MaxStudents == 3    \* add_student is not called on a longer list
MaxId == 3          \* add_student is not called once max id reaches this

(* Input domains *)
Names == {"Ann"}
Ages == {20}
Gpas == {30, 40}
Majors == {"CS"}
Emails == {"a@x.id"}
Ids == 1..MaxId

---------------------------------------------------------------------------
(* class Student *)

FieldOrder == <<"id", "name", "age", "gpa", "major", "email">>

FieldNames == {FieldOrder[i] : i \in 1..Len(FieldOrder)}

Student(id, name, age, gpa, major, email) ==
    [id |-> id, name |-> name, age |-> age, gpa |-> gpa,
     major |-> major, email |-> email]

\* A Student whose instance __dict__ was replaced by {}: it has no field left.
NoFields == [f \in {} |-> 0]

\* hasattr(student, field) is true for the six fields and for the attributes
\* every object has; "__class__" and "__dict__" stand for the latter.
ObjectAttrs == {"__class__", "__dict__"}

hasattr(student, field) == field \in (DOMAIN student) \cup ObjectAttrs

\* setattr(student, field, value), for a field hasattr accepts and a value that
\* does not make the assignment raise: a field takes the value, and
\* student.__dict__ = {} leaves the object without any field.
setattr(student, field, value) ==
    IF field = "__dict__" THEN NoFields
    ELSE [student EXCEPT ![field] = value]

\* setattr raises TypeError when __class__ is given a value that is no class
\* (the values modelled for it are strings)
SetattrRaises(field, value) == field = "__class__"

\* One keyword argument.  Its value is a number (id, age, gpa) or a string.
NumKeys == {"id", "age", "gpa"}

Kw(k, v) ==
    IF k \in NumKeys THEN [key |-> k, num |-> v, str |-> ""]
    ELSE [key |-> k, num |-> 0, str |-> v]

ValueOf(item) == IF item.key \in NumKeys THEN item.num ELSE item.str

\* Return values and raised exceptions
None == [kind |-> "None", val |-> 0]
Bool(b) == [kind |-> "bool", val |-> b]
Rec(s) == [kind |-> "Student", val |-> s]
List(l) == [kind |-> "list", val |-> l]
Float(num, den) == [kind |-> "float", val |-> <<num, den>>]
Raised(e) == [kind |-> "raise", val |-> e]

NoAlias == [kind |-> "none", idx |-> 0]
AliasList == [kind |-> "list", idx |-> 0]
AliasRecord(i) == [kind |-> "record", idx |-> i]

---------------------------------------------------------------------------
(* The data file: json.dump / json.load *)

\* dataclasses.asdict: the fields in declaration order, as key/value pairs
asdict(student) ==
    [i \in 1..Len(FieldOrder) |-> <<FieldOrder[i], student[FieldOrder[i]]>>]

\* Student(**student) for one JSON object of the file
FromDict(d) ==
    [f \in FieldNames |-> d[CHOOSE i \in 1..Len(d) : d[i][1] = f][2]]

\* open(path, 'w') alone: the file is truncated to zero bytes
Truncated == [json |-> FALSE, data |-> <<>>]

\* ensure_data_file_exists: json.dump([], file)
ensure_data_file_exists == [json |-> TRUE, data |-> <<>>]

save_students(studs) ==
    [json |-> TRUE, data |-> [i \in 1..Len(studs) |-> asdict(studs[i])]]

load_students(f) == [i \in 1..Len(f.data) |-> FromDict(f.data[i])]

---------------------------------------------------------------------------
(* Helpers of the operations *)

\* Mutant: the largest id taken to be the id of the last student
MaxIdOfLast(studs) == IF studs = <<>> THEN 0 ELSE studs[Len(studs)].id

RECURSIVE MaxIdOf(_)
\* max([student.id for student in self.students], default=0)
MaxIdOf(studs) ==
    IF studs = <<>> THEN 0
    ELSE LET m == MaxIdOf(Tail(studs))
         IN IF Head(studs).id > m THEN Head(studs).id ELSE m

\* Mutant: the next id taken from the number of students
new_id_from_count(studs) == Len(studs) + 1

new_id(studs) == MaxIdOf(studs) + 1

\* index of the first student with that id, 0 when there is none
FindIndex(studs, student_id) ==
    IF \E i \in 1..Len(studs) : studs[i].id = student_id
    THEN CHOOSE i \in 1..Len(studs) :
            /\ studs[i].id = student_id
            /\ \A j \in 1..(i - 1) : studs[j].id # student_id
    ELSE 0

\* Mutant: next(...) with the first student as its default
find_student_default_first(studs, student_id) ==
    IF FindIndex(studs, student_id) # 0 THEN Rec(studs[FindIndex(studs, student_id)])
    ELSE IF studs # <<>> THEN Rec(studs[1]) ELSE None

find_student(studs, student_id) ==
    IF FindIndex(studs, student_id) = 0 THEN None
    ELSE Rec(studs[FindIndex(studs, student_id)])

\* list.remove(x): drops the first element equal to x
ListRemove(l, x) ==
    LET i == CHOOSE k \in 1..Len(l) : l[k] = x /\ \A j \in 1..(k - 1) : l[j] # x
    IN [k \in 1..(Len(l) - 1) |-> IF k < i THEN l[k] ELSE l[k + 1]]

\* the loop of update_student over kwargs.items(), in the caller's order;
\* it stops at the first setattr that raises
RECURSIVE Patch(_, _)
Patch(student, kwargs) ==
    IF kwargs = <<>> THEN [student |-> student, raised |-> FALSE]
    ELSE LET field == Head(kwargs).key
             value == ValueOf(Head(kwargs))
         IN IF ~hasattr(student, field) THEN Patch(student, Tail(kwargs))
            ELSE IF SetattrRaises(field, value)
                 THEN [student |-> student, raised |-> TRUE]
                 ELSE Patch(setattr(student, field, value), Tail(kwargs))

RECURSIVE MaxFromLast(_, _, _)
\* Mutant: the running best is also replaced by an equal key
MaxFromLast(studs, best, i) ==
    IF i > Len(studs) THEN best
    ELSE MaxFromLast(studs, IF studs[i].gpa >= studs[best].gpa THEN i ELSE best, i + 1)

RECURSIVE MaxFrom(_, _, _)
\* max(iterable, key=...): the running best is replaced only by a strictly
\* greater key
MaxFrom(studs, best, i) ==
    IF i > Len(studs) THEN best
    ELSE MaxFrom(studs, IF studs[i].gpa > studs[best].gpa THEN i ELSE best, i + 1)

HighestIndex(studs) == MaxFrom(studs, 1, 2)

RECURSIVE SumGpa(_)
\* sum(student.gpa for student in self.students)
SumGpa(studs) ==
    IF studs = <<>> THEN 0 ELSE Head(studs).gpa + SumGpa(Tail(studs))

\* Mutant: no test for the empty list
average_gpa_unguarded(studs) == Float(SumGpa(studs), Len(studs))

average_gpa(studs) ==
    IF studs = <<>> THEN Float(0, 1) ELSE Float(SumGpa(studs), Len(studs))

---------------------------------------------------------------------------
(* Keyword arguments of update_student: a dict, in insertion order *)

KwKeys == FieldNames \cup ObjectAttrs \cup {"nickname"}

KwValues(k) ==
    CASE k = "id" -> Ids
      [] k = "name" -> Names
      [] k = "age" -> Ages
      [] k = "gpa" -> Gpas
      [] k = "major" -> Majors
      [] k = "email" -> Emails
      [] k = "nickname" -> {"Annie"}
      [] k = "__class__" -> {"not a class"}
      [] k = "__dict__" -> {"{}"}

KwItems == UNION {{Kw(k, v) : v \in KwValues(k)} : k \in KwKeys}

KeysOf(kwargs) == {kwargs[i].key : i \in 1..Len(kwargs)}

\* The dicts update_student is called with: no entry, one entry, and a gpa
\* followed by an entry of another key.
Kwargs ==
    {<<>>}
        \cup {<<it>> : it \in KwItems}
        \cup {<<a, b>> : a \in {x \in KwItems : x.key = "gpa"},
                          b \in {x \in KwItems : x.key # "gpa"}}

---------------------------------------------------------------------------
(* The operations *)

\* An exception other than ValueError ends the program (the menu loop only
\* catches ValueError); nothing is modelled after it.
Running == ret.kind # "raise"

\* The caller is between two calls
AtPrompt == op = "prompt"

\* ensure_data_file_exists(DATA_FILE_PATH); StudentManager(DATA_FILE_PATH)
Init ==
    /\ file = ensure_data_file_exists
    /\ students = load_students(ensure_data_file_exists)
    /\ op = "init"
    /\ args = <<>>
    /\ ret = None
    /\ wrote = FALSE
    /\ alias = NoAlias
    /\ lastAdded = 0

\* The menu loop prints the result of the call and asks for the next option
ShowResult ==
    /\ ~AtPrompt
    /\ Running
    /\ op' = "prompt"
    /\ args' = <<>>
    /\ ret' = None
    /\ wrote' = FALSE
    /\ alias' = NoAlias
    /\ UNCHANGED <<students, file, lastAdded>>

\* StudentManager.__init__ on the existing file: a new run of the program,
\* after the previous one was left at the prompt or ended by an exception.
\* (On a truncated file json.load raises and there is no manager.)
Restart ==
    /\ AtPrompt \/ ~Running
    /\ file.json
    /\ students' = load_students(file)
    /\ op' = "init"
    /\ args' = <<>>
    /\ ret' = None
    /\ wrote' = FALSE
    /\ alias' = NoAlias
    /\ UNCHANGED <<file, lastAdded>>

add_student(name, age, gpa, major, email) ==
    /\ AtPrompt
    /\ Len(students) < MaxStudents
    /\ new_id(students) <= MaxId
    /\ LET new_student == Student(new_id(students), name, age, gpa, major, email)
       IN /\ students' = Append(students, new_student)
          /\ file' = save_students(students')
          /\ ret' = Rec(new_student)
          /\ alias' = AliasRecord(Len(students) + 1)
    /\ op' = "add"
    /\ args' = <<name, age, gpa, major, email>>
    /\ wrote' = TRUE

FindStudent(student_id) ==
    /\ AtPrompt
    /\ op' = "find"
    /\ args' = <<student_id>>
    /\ ret' = find_student(students, student_id)
    /\ alias' = IF FindIndex(students, student_id) = 0 THEN NoAlias
                ELSE AliasRecord(FindIndex(students, student_id))
    /\ wrote' = FALSE
    /\ UNCHANGED <<students, file, lastAdded>>

remove_student(student_id) ==
    /\ AtPrompt
    /\ op' = "remove"
    /\ args' = <<student_id>>
    /\ alias' = NoAlias
    /\ LET student_to_remove == find_student(students, student_id)
       IN IF student_to_remove # None
          THEN /\ students' = ListRemove(students, student_to_remove.val)
               /\ file' = save_students(students')
               /\ wrote' = TRUE
               /\ ret' = Bool(TRUE)
          ELSE /\ ret' = Bool(FALSE)
               /\ wrote' = FALSE
               /\ UNCHANGED <<students, file>>
    /\ UNCHANGED lastAdded

update_student(student_id, kwargs) ==
    /\ AtPrompt
    /\ op' = "update"
    /\ args' = <<student_id, kwargs>>
    /\ LET i == FindIndex(students, student_id)
       IN IF i = 0
          THEN /\ ret' = None
               /\ alias' = NoAlias
               /\ wrote' = FALSE
               /\ UNCHANGED <<students, file>>
          ELSE LET p == Patch(students[i], kwargs)
               IN /\ students' = [students EXCEPT ![i] = p.student]
                  /\ IF p.raised
                     THEN \* setattr raised: save_students is not reached
                          /\ ret' = Raised("TypeError")
                          /\ alias' = NoAlias
                          /\ wrote' = FALSE
                          /\ UNCHANGED file
                     ELSE IF \E k \in 1..Len(students') : students'[k] = NoFields
                     THEN \* save_students: open(..., 'w') truncates the file,
                          \* then asdict raises on the student without fields
                          /\ ret' = Raised("AttributeError")
                          /\ alias' = NoAlias
                          /\ wrote' = TRUE
                          /\ file' = Truncated
                     ELSE /\ file' = save_students(students')
                          /\ wrote' = TRUE
                          /\ ret' = Rec(p.student)
                          /\ alias' = AliasRecord(i)
    /\ UNCHANGED lastAdded

list_students ==
    /\ AtPrompt
    /\ op' = "list"
    /\ args' = <<>>
    /\ ret' = List(students)
    /\ alias' = AliasList
    /\ wrote' = FALSE
    /\ UNCHANGED <<students, file, lastAdded>>

get_highest_gpa_student ==
    /\ AtPrompt
    /\ op' = "highest"
    /\ args' = <<>>
    /\ IF students = <<>>
       THEN ret' = None /\ alias' = NoAlias
       ELSE /\ ret' = Rec(students[HighestIndex(students)])
            /\ alias' = AliasRecord(HighestIndex(students))
    /\ wrote' = FALSE
    /\ UNCHANGED <<students, file, lastAdded>>

get_average_gpa ==
    /\ AtPrompt
    /\ op' = "average"
    /\ args' = <<>>
    /\ ret' = average_gpa(students)
    /\ alias' = NoAlias
    /\ wrote' = FALSE
    /\ UNCHANGED <<students, file, lastAdded>>

\* A caller that holds the list list_students returned calls pop() on it
CallerListPop ==
    /\ alias = AliasList
    /\ students # <<>>
    /\ students' = SubSeq(students, 1, Len(students) - 1)
    /\ op' = "caller"
    /\ args' = <<"pop">>
    /\ UNCHANGED <<file, ret, wrote, alias, lastAdded>>

\* A caller that holds a Student the store returned assigns one of its fields
CallerSetAttr(field, value) ==
    /\ alias.kind = "record"
    /\ students' = [students EXCEPT ![alias.idx] = setattr(@, field, value)]
    /\ students' # students
    /\ op' = "caller"
    /\ args' = <<field, value>>
    /\ UNCHANGED <<file, ret, wrote, alias, lastAdded>>

AddStudent ==
    \E name \in Names, age \in Ages, gpa \in Gpas, major \in Majors, email \in Emails :
        add_student(name, age, gpa, major, email) /\ UNCHANGED lastAdded

\* add_student, the caller noting the id it was given
AddStudentNoted ==
    \E name \in Names, age \in Ages, gpa \in Gpas, major \in Majors, email \in Emails :
        add_student(name, age, gpa, major, email) /\ lastAdded' = ret'.val.id

RemoveStudent == \E student_id \in Ids : remove_student(student_id)

UpdateStudent ==
    \E student_id \in Ids, kwargs \in Kwargs : update_student(student_id, kwargs)

Find == \E student_id \in Ids : FindStudent(student_id)

CallerMutates ==
    \/ CallerListPop
    \/ \E gpa \in Gpas : CallerSetAttr("gpa", gpa)

\* Every operation of the store
Next ==
    \/ ShowResult
    \/ Restart
    \/ AddStudent
    \/ RemoveStudent
    \/ UpdateStudent
    \/ Find
    \/ list_students
    \/ get_highest_gpa_student
    \/ get_average_gpa

Spec == Init /\ [][Next]_vars

\* add_student and remove_student only
NextAddRemove ==
    \/ ShowResult
    \/ AddStudentNoted
    \/ RemoveStudent

SpecAddRemove == Init /\ [][NextAddRemove]_vars

\* The store's operations and a caller that writes through returned references
NextAlias ==
    \/ Next
    \/ CallerMutates

SpecAlias == Init /\ [][NextAlias]_vars

---------------------------------------------------------------------------
(* Properties *)

UniqueIds(studs) ==
    \A i, j \in 1..Len(studs) : i # j => studs[i].id # studs[j].id

\* C1 as stated: the ids add_student returns are 1, 2, 3, ...: each is one
\* more than the id the previous add_student returned, whatever was removed in
\* between (strictly increasing, no gap, no reuse).
C1_AddIdsNeverReused ==
    [][op' = "add" => ret'.val.id = lastAdded + 1]_vars

\* C1 amended: the id add_student returns is greater than every id in the
\* store at the time of the call, and it is one more than the id the previous
\* add_student returned as long as that student is still in the store (1 when
\* there was no add before).
C1_AddIdAboveStore ==
    [][op' = "add" =>
        /\ \A k \in 1..Len(students) : students[k].id < ret'.val.id
        /\ (lastAdded = 0 \/ \E k \in 1..Len(students) : students[k].id = lastAdded)
              => ret'.val.id = lastAdded + 1
      ]_vars

\* add_student after the student with id 1 was removed: the new id is above
\* the ids in the store and follows the previous one
C1_Witness ==
    /\ op = "add"
    /\ Len(students) = 2
    /\ students[1].id = 2
    /\ ret.val.id = 3
    /\ lastAdded = 3

\* C2: no two students in the store have the same id.
C2_IdsUnique == Running => UniqueIds(students)

\* C3: update_student on a present id returns the updated student without
\* raising; the student has the supplied value in every supplied field and its
\* old value in every other field, names that are no field change nothing, and
\* all other students and the order of the list are as before.
C3_UpdateExactlySuppliedFields ==
    [][(op' = "update" /\ FindIndex(students, args'[1]) # 0) =>
        LET i == FindIndex(students, args'[1])
            kwargs == args'[2]
            Supplied(f) == \E k \in 1..Len(kwargs) : kwargs[k].key = f
            Value(f) == ValueOf(kwargs[CHOOSE k \in 1..Len(kwargs) : kwargs[k].key = f])
        IN /\ ret'.kind = "Student"
           /\ Len(students') = Len(students)
           /\ \A j \in 1..Len(students) : j # i => students'[j] = students[j]
           /\ DOMAIN students'[i] = FieldNames
           /\ \A f \in FieldNames :
                students'[i][f] = IF Supplied(f) THEN Value(f) ELSE students[i][f]
           /\ ret'.val = students'[i]
      ]_vars

\* C4: right after remove_student(id) returns, find_student(id) is None.
C4_RemoveThenFindAbsent ==
    op = "remove" => find_student(students, args[1]).kind = "None"

\* C5: when no student has the id, find_student and update_student return
\* None and remove_student returns False, nothing is raised, the list and the
\* file stay as they were and the file is not opened for writing.
C5_NotFoundIsNoOp ==
    [][(op' \in {"find", "update", "remove"}
            /\ \A k \in 1..Len(students) : students[k].id # args'[1]) =>
        /\ IF op' = "remove"
           THEN ret'.kind = "bool" /\ ret'.val = FALSE
           ELSE ret'.kind = "None"
        /\ students' = students
        /\ file' = file
        /\ ~wrote'
      ]_vars

C5_Witness ==
    /\ op = "update"
    /\ ret.kind = "None"
    /\ args[2] # <<>>
    /\ Len(students) = MaxStudents
    /\ ~wrote

\* C6: add_student returns a student whose id is 1 + the largest id in the
\* store (1 for an empty store) and whose other fields are the arguments; the
\* list afterwards is the old list with that student appended.
C6_AddAppendsNextId ==
    [][op' = "add" =>
        LET ids == {students[k].id : k \in 1..Len(students)}
            next == IF ids = {} THEN 1
                    ELSE 1 + CHOOSE m \in ids : \A x \in ids : x <= m
        IN /\ ret'.kind = "Student"
           /\ ret'.val = Student(next, args'[1], args'[2], args'[3], args'[4], args'[5])
           /\ students' = Append(students, ret'.val)
           /\ Len(students') = Len(students) + 1
      ]_vars

\* add_student on a store whose largest id is not the last student's
C6_Witness ==
    /\ op = "add"
    /\ Len(students) = 3
    /\ students[1].id = 2
    /\ students[2].id = 1
    /\ ret.val.id = 3

\* C7: get_highest_gpa_student returns None on an empty store; otherwise the
\* student it returns has a gpa no smaller than any other's, and every student
\* before it in the list has a strictly smaller gpa; the store is unchanged.
C7_HighestGpaFirstMaximal ==
    [][op' = "highest" =>
        /\ students' = students
        /\ file' = file
        /\ ~wrote'
        /\ IF students = <<>>
           THEN ret'.kind = "None"
           ELSE /\ ret'.kind = "Student"
                /\ alias'.idx \in 1..Len(students)
                /\ ret'.val = students[alias'.idx]
                /\ \A j \in 1..Len(students) : students[j].gpa <= ret'.val.gpa
                /\ \A j \in 1..(alias'.idx - 1) : students[j].gpa < ret'.val.gpa
      ]_vars

\* two students share the highest gpa and the first of them is returned
C7_Witness ==
    /\ op = "highest"
    /\ Len(students) = 3
    /\ students[1].gpa = 30
    /\ students[2].gpa = 40
    /\ students[3].gpa = 40
    /\ UniqueIds(students)
    /\ ret.val = students[2]
    /\ alias.idx = 2

RECURSIVE TotalGpa(_, _)
TotalGpa(studs, n) == IF n = 0 THEN 0 ELSE TotalGpa(studs, n - 1) + studs[n].gpa

\* C8: get_average_gpa returns 0.0 on an empty store, without dividing, and
\* otherwise the sum of all gpa values divided by the number of students; the
\* store is unchanged.
C8_AverageGpa ==
    [][op' = "average" =>
        /\ students' = students
        /\ file' = file
        /\ ~wrote'
        /\ ret'.kind = "float"
        /\ ret'.val[2] # 0
        /\ IF students = <<>>
           THEN ret'.val[1] = 0
           ELSE ret'.val[1] * Len(students) = TotalGpa(students, Len(students)) * ret'.val[2]
      ]_vars

C8_Witness ==
    /\ op = "average"
    /\ Len(students) = 2
    /\ students[1].gpa = 30
    /\ students[2].gpa = 40
    /\ ret.val[1] * 2 = 70 * ret.val[2]

\* C9: after an add_student, a remove_student that returned True and an
\* update_student that found its student, the file holds the students of the
\* list, in order, each with its six fields; and loading the file gives the
\* list in memory.
C9_FileHoldsStore ==
    /\ (\/ op = "add"
        \/ op = "remove" /\ ret.val = TRUE
        \/ op = "update" /\ ret.kind # "None") =>
            /\ file.json
            /\ Len(file.data) = Len(students)
            /\ \A i \in 1..Len(students) :
                 file.data[i] = << <<"id", students[i].id>>,
                                   <<"name", students[i].name>>,
                                   <<"age", students[i].age>>,
                                   <<"gpa", students[i].gpa>>,
                                   <<"major", students[i].major>>,
                                   <<"email", students[i].email>> >>
    /\ file.json /\ load_students(file) = students

\* C10: nothing a caller does with a value the store returned changes the
\* store: after the caller's write the list is still what the file holds.
C10_NoCallerMutation ==
    op = "caller" => students = load_students(file)

====
